---- MODULE Spec2Model ----
(***************************************************************************)
(* Model of matrix-uri-parser-js: the MatrixURL constructor and            *)
(* MatrixURL._extractUrlData (src/src/index.ts).                           *)
(*                                                                         *)
(* JavaScript strings are sequences of one-character strings, so that      *)
(* substring, indexOf, startsWith and split are computed as the code       *)
(* computes them.  null and undefined are the one-element sequences Null   *)
(* and Undefined, whose element is not a single character: they differ     *)
(* from every string.                                                      *)
(***************************************************************************)
EXTENDS Integers, Sequences, FiniteSets, TLC

VARIABLES uri, env, pc, this, path, queryParams

vars == <<uri, env, pc, this, path, queryParams>>

----------------------------------------------------------------------------
(* Bounds of the explored inputs *)

MaxSegs == 5

MaxTokens == 3

----------------------------------------------------------------------------
(* JavaScript values and string primitives *)

Null == <<"null">>

Undefined == <<"undefined">>

Falsy(v) == v = <<>> \/ v = Null \/ v = Undefined

Min(a, b) == IF a < b THEN a ELSE b

Max(a, b) == IF a < b THEN b ELSE a

Clamp(n, len) == Max(0, Min(n, len))

\* String.prototype.substring(start, end): both indices are clamped to
\* [0, length] and swapped when start > end.
Substring(s, start, end) ==
    LET a == Clamp(start, Len(s))
        b == Clamp(end, Len(s))
    IN  SubSeq(s, Min(a, b) + 1, Max(a, b))

\* String.prototype.substring(start)
SubstringFrom(s, start) == Substring(s, start, Len(s))

\* String.prototype.indexOf(ch, from) for a one-character needle; -1 if absent
IndexOf(s, ch, from) ==
    LET hits == {i \in Max(0, from)..(Len(s) - 1) : s[i + 1] = ch}
    IN  IF hits = {} THEN -1
        ELSE CHOOSE i \in hits : \A j \in hits : i <= j

StartsWith(s, p) == Len(s) >= Len(p) /\ SubSeq(s, 1, Len(p)) = p

\* String.prototype.split(sep) for a one-character separator: "" gives [""],
\* and every occurrence of the separator ends a piece.
RECURSIVE Split(_, _)
Split(s, sep) ==
    LET i == IndexOf(s, sep, 0)
    IN  IF i = -1 THEN <<s>>
        ELSE <<SubSeq(s, 1, i)>> \o Split(SubSeq(s, i + 2, Len(s)), sep)

\* Array.prototype.join(sep), used to write the input URIs
RECURSIVE Join(_, _)
Join(parts, sep) ==
    IF parts = <<>> THEN <<>>
    ELSE IF Len(parts) = 1 THEN parts[1]
    ELSE parts[1] \o <<sep>> \o Join(Tail(parts), sep)

----------------------------------------------------------------------------
(* enum EntityType and the messages of the thrown TypeErrors *)

UserId == "UserId"

RoomAlias == "RoomAlias"

RoomId == "RoomId"

NoKind == "undefined"

InvalidScheme == "Not a matrix: scheme link"

InvalidSegmentCount == "Invalid number of path segments"

InvalidEntityDescriptor == "Invalid entity descriptor"

EmptyIdentifier == "Empty mxid, not valid"

EventNotAllowedForKind == "Can only specify events on rooms or room aliases"

InvalidEventUrl == "Invalid event URL"

NoError == ""

\* The literals the code compares path segments and query keys with
S_u == <<"u">>

S_r == <<"r">>

S_roomid == <<"r", "o", "o", "m", "i", "d">>

S_e == <<"e">>

S_event == <<"e", "v", "e", "n", "t">>

S_via == <<"v", "i", "a">>

S_action == <<"a", "c", "t", "i", "o", "n">>

----------------------------------------------------------------------------
(* The generic URL primitive (new URL(uri)), as the two hosts surface it *)

Node == "node"

Browser == "browser"

\* key[=val] : val = Null is a token without "="
Token(t) == IF t.val = Null THEN t.key ELSE t.key \o <<"=">> \o t.val

RenderTokens(toks) == [i \in 1..Len(toks) |-> Token(toks[i])]

Rest(u) == Join(u.segs, "/")

Query(u) == Join(RenderTokens(u.toks), "&")

\* new URL(uri) for  scheme:[//authority/]rest[?query][#fragment].
\* Node reports the authority as host and leaves "/rest" as pathname; a
\* browser reports no host and a pathname starting with "//authority/".
URL(u, e) ==
    [protocol |-> u.scheme,
     host     |-> IF u.authority # Null /\ e = Node THEN u.authority ELSE <<>>,
     pathname |-> IF u.authority = Null THEN Rest(u)
                  ELSE IF e = Node THEN <<"/">> \o Rest(u)
                  ELSE <<"/", "/">> \o u.authority \o <<"/">> \o Rest(u),
     search   |-> IF Query(u) = <<>> THEN <<>> ELSE <<"?">> \o Query(u),
     hash     |-> IF u.fragment = <<>> THEN <<>> ELSE <<"#">> \o u.fragment]

----------------------------------------------------------------------------
(* MatrixURL.constructor, up to the call of _extractUrlData *)

\* url.protocol !== "matrix:"
NotMatrixScheme(url) == url.protocol # "matrix:"

\* this.fragment = url.hash.substring(1) || null
Fragment(url) ==
    LET f == SubstringFrom(url.hash, 1)
    IN  IF Falsy(f) THEN Null ELSE f

\* Number of characters dropped after the authority in the "//" branch
AuthorityStripExtra == 4

\* this.authority and the local path
AuthorityAndPath(url) ==
    IF ~Falsy(url.host)
    THEN [authority |-> url.host, path |-> SubstringFrom(url.pathname, 1)]
    ELSE IF StartsWith(url.pathname, <<"/", "/">>)
    THEN LET a == Substring(url.pathname, 2, IndexOf(url.pathname, "/", 2))
         IN  [authority |-> a,
              path |-> SubstringFrom(url.pathname, Len(a) + AuthorityStripExtra)]
    ELSE [authority |-> Null, path |-> url.pathname]

\* s.split("=") over every "&"-separated token of the search string
TokenizeOnAllEquals(tok) == Split(tok, "=")

QueryParams(url) ==
    IF ~Falsy(url.search)
    THEN LET toks == Split(SubstringFrom(url.search, 1), "&")
         IN  [i \in 1..Len(toks) |-> TokenizeOnAllEquals(toks[i])]
    ELSE <<>>

----------------------------------------------------------------------------
(* MatrixURL._extractUrlData *)

\* paths.length !== 2 && paths.length !== 4
InvalidCount_AcceptsThree(n) == n # 2 /\ n # 3 /\ n # 4

InvalidCount(n) == n # 2 /\ n # 4

\* switch (paths[0]); NoKind is the default branch, which throws
KindOf_RoomidIsAlias(seg) ==
    IF seg = S_u THEN UserId
    ELSE IF seg = S_r THEN RoomAlias
    ELSE IF seg = S_roomid THEN RoomAlias
    ELSE NoKind

KindOf(seg) ==
    IF seg = S_u THEN UserId
    ELSE IF seg = S_r THEN RoomAlias
    ELSE IF seg = S_roomid THEN RoomId
    ELSE NoKind

\* paths[2] === "e" || paths[2] === "event"
IsEventTag(seg) == seg = S_e \/ seg = S_event

\* this.kind !== EntityType.RoomId && this.kind !== EntityType.RoomAlias
EventForbidden_UsersAllowed(kind) == FALSE

EventForbidden(kind) == kind # RoomId /\ kind # RoomAlias

\* The segment assigned to this.eventId
EventIdOf_TakesTag(paths) == paths[3]

EventIdOf(paths) == paths[4]

Throw(msg) ==
    [threw |-> TRUE, message |-> msg, kind |-> NoKind, id |-> Null,
     eventId |-> Null, fragment |-> Null, authority |-> Null,
     via |-> <<>>, action |-> Null, unknownParams |-> <<>>]

\* Path part of _extractUrlData: the checks in the order of the code
ExtractPath(p) ==
    LET paths == Split(p, "/")
        kind  == KindOf(paths[1])
        id    == paths[2]
        ok(eventId) ==
            [threw |-> FALSE, message |-> NoError, kind |-> kind, id |-> id,
             eventId |-> eventId]
        err(msg) ==
            [threw |-> TRUE, message |-> msg, kind |-> NoKind, id |-> Null,
             eventId |-> Null]
    IN  IF InvalidCount(Len(paths)) THEN err(InvalidSegmentCount)
        ELSE IF kind = NoKind THEN err(InvalidEntityDescriptor)
        ELSE IF Falsy(id) THEN err(EmptyIdentifier)
        ELSE IF Len(paths) = 4
        THEN IF IsEventTag(paths[3])
             THEN IF EventForbidden(kind) THEN err(EventNotAllowedForKind)
                  ELSE IF Falsy(paths[4]) THEN err(InvalidEventUrl)
                  ELSE ok(EventIdOf(paths))
             ELSE err(InvalidEntityDescriptor)
        ELSE ok(Null)

\* const [key, value] of queryParams
Key(pair) == pair[1]

Value(pair) == IF Len(pair) >= 2 THEN pair[2] ELSE Undefined

\* One iteration of the classification loop
ClassifyStep_FirstActionWins(acc, pair) ==
    IF Key(pair) = S_via
    THEN [acc EXCEPT !.via = Append(@, Value(pair))]
    ELSE IF Key(pair) = S_action
    THEN [acc EXCEPT !.action = IF @ = Null THEN Value(pair) ELSE @]
    ELSE [acc EXCEPT !.unknownParams = Append(@, <<Key(pair), Value(pair)>>)]

ClassifyStep_ViaPrepended(acc, pair) ==
    IF Key(pair) = S_via
    THEN [acc EXCEPT !.via = <<Value(pair)>> \o @]
    ELSE IF Key(pair) = S_action
    THEN [acc EXCEPT !.action = Value(pair)]
    ELSE [acc EXCEPT !.unknownParams = Append(@, <<Key(pair), Value(pair)>>)]

ClassifyStep(acc, pair) ==
    IF Key(pair) = S_via
    THEN [acc EXCEPT !.via = Append(@, Value(pair))]
    ELSE IF Key(pair) = S_action
    THEN [acc EXCEPT !.action = Value(pair)]
    ELSE [acc EXCEPT !.unknownParams = Append(@, <<Key(pair), Value(pair)>>)]

RECURSIVE ClassifyLoop(_, _)
ClassifyLoop(acc, qs) ==
    IF qs = <<>> THEN acc
    ELSE ClassifyLoop(ClassifyStep(acc, Head(qs)), Tail(qs))

\* Query part of _extractUrlData
Classify(qs) ==
    ClassifyLoop([via |-> <<>>, action |-> Null, unknownParams |-> <<>>], qs)

\* _extractUrlData(path, queryParams): nothing is classified when the path
\* part throws
ExtractUrlData_RejectsBareKeys(p, qs) ==
    LET d == ExtractPath(p)
        c == Classify(qs)
    IN  IF d.threw THEN Throw(d.message)
        ELSE IF \E i \in 1..Len(qs) : Value(qs[i]) = Undefined
        THEN Throw(InvalidEntityDescriptor)
        ELSE [threw |-> FALSE, message |-> NoError, kind |-> d.kind,
              id |-> d.id, eventId |-> d.eventId, fragment |-> Null,
              authority |-> Null, via |-> c.via, action |-> c.action,
              unknownParams |-> c.unknownParams]

ExtractUrlData(p, qs) ==
    LET d == ExtractPath(p)
        c == Classify(qs)
    IN  IF d.threw THEN Throw(d.message)
        ELSE [threw |-> FALSE, message |-> NoError, kind |-> d.kind,
              id |-> d.id, eventId |-> d.eventId, fragment |-> Null,
              authority |-> Null, via |-> c.via, action |-> c.action,
              unknownParams |-> c.unknownParams]

\* new MatrixURL(uri), given what new URL(uri) returned
MatrixURL(url) ==
    IF NotMatrixScheme(url) THEN Throw(InvalidScheme)
    ELSE LET ap == AuthorityAndPath(url)
             d  == ExtractUrlData(ap.path, QueryParams(url))
         IN  IF d.threw THEN d
             ELSE [d EXCEPT !.fragment = Fragment(url),
                            !.authority = ap.authority]

----------------------------------------------------------------------------
(* The explored URIs *)

SeqsUpTo(S, lo, hi) == UNION {[1..k -> S] : k \in lo..hi}

\* Path segments: every literal the code tests, an empty one and a free one
SegVals == {<<>>, S_u, S_r, S_roomid, S_e, S_event, <<"a">>}

Tok(k, v) == [key |-> k, val |-> v]

\* Query tokens: both reserved keys and other keys, with a plain value, with
\* no "=" at all, and with a value that itself contains "="
TokVals ==
    {Tok(S_via, <<"s">>), Tok(S_via, <<"t">>), Tok(S_via, Null),
     Tok(S_via, <<"s", "=", "t">>),
     Tok(S_action, <<"c">>), Tok(S_action, <<"d">>), Tok(S_action, Null),
     Tok(S_action, <<"c", "=", "d">>),
     Tok(<<"k">>, <<"v">>), Tok(<<"j">>, <<"w">>), Tok(<<"k">>, Null),
     Tok(<<"k">>, <<"v", "=", "w">>)}

Uri(scheme, authority, segs, toks, fragment) ==
    [scheme |-> scheme, authority |-> authority, segs |-> segs,
     toks |-> toks, fragment |-> fragment]

\* scheme:rest with rest starting with "//" is the authority form
WellFormed(u) == u.authority = Null => ~StartsWith(Rest(u), <<"/", "/">>)

OneQuery == <<Tok(S_action, <<"c">>), Tok(S_via, <<"s">>)>>

FewQueries == {<<>>, OneQuery}

FewPaths ==
    {<<S_u, <<"a">>>>, <<S_roomid, <<"a">>, S_event, <<"a">>>>,
     <<S_r, <<>>>>, <<S_u, <<"a">>, S_e, <<"a">>>>, <<S_r>>}

QueryPaths ==
    {<<S_u, <<"a">>>>, <<S_roomid, <<"a">>, S_event, <<"a">>>>, <<S_r, <<>>>>}

\* Every path up to MaxSegs segments, with and without authority, one query
PathInputs ==
    {Uri("matrix:", a, segs, OneQuery, <<>>) :
        a \in {Null, <<"h">>},
        segs \in SeqsUpTo(SegVals, 1, MaxSegs)}

\* Every query up to MaxTokens tokens, few paths
QueryInputs ==
    {Uri("matrix:", Null, segs, toks, f) :
        segs \in QueryPaths,
        toks \in SeqsUpTo(TokVals, 0, MaxTokens),
        f \in {<<>>, <<"f">>}}

\* Other schemes, longer authorities, fragments, with and without query
OtherInputs ==
    {Uri(s, a, segs, toks, f) :
        s \in {"matrix:", "https:"},
        a \in {Null, <<"h">>, <<"h", "s">>},
        segs \in FewPaths,
        toks \in FewQueries,
        f \in {<<>>, <<"f">>}}

Inputs == {u \in PathInputs \cup QueryInputs \cup OtherInputs : WellFormed(u)}

----------------------------------------------------------------------------
(* State machine: one construction of a MatrixURL per behaviour *)

Init ==
    /\ uri \in Inputs
    /\ env \in {Node, Browser}
    /\ pc = "start"
    /\ this = [Throw(NoError) EXCEPT !.threw = FALSE]
    /\ path = Null
    /\ queryParams = <<>>

\* new MatrixURL(uri): the constructor and the _extractUrlData it calls.
\* path and queryParams record the arguments of that call.
Construct ==
    /\ pc = "start"
    /\ LET url == URL(uri, env)
       IN  /\ this' = MatrixURL(url)
           /\ path' = IF NotMatrixScheme(url) THEN Null
                      ELSE AuthorityAndPath(url).path
           /\ queryParams' = IF NotMatrixScheme(url) THEN <<>>
                             ELSE QueryParams(url)
    /\ pc' = "done"
    /\ UNCHANGED <<uri, env>>

Next == Construct

Spec == Init /\ [][Next]_vars

Done == pc = "done"

Returned == Done /\ ~this.threw

\* The call of _extractUrlData was reached
Extracted == Done /\ path # Null

\* paths, as _extractUrlData splits its argument
Segments == Split(path, "/")

----------------------------------------------------------------------------
(* Claims about the path: segment count, kind, id, event *)

KindTags == {S_u, S_r, S_roomid}

EventTags == {S_e, S_event}

\* C1, as stated: a path with first segment "u" and 4 segments fails with
\* EventNotAllowedForKind whatever its second, third and fourth segments are.
C1_AnyUserFourSegments ==
    (Extracted /\ Len(Segments) = 4 /\ Segments[1] = S_u)
        => (this.threw /\ this.message = EventNotAllowedForKind)

\* C1, amended: a path with first segment "u" and 4 segments always fails:
\* with EmptyIdentifier when the second segment is empty, else with
\* InvalidEntityDescriptor when the third segment is neither "e" nor "event",
\* else with EventNotAllowedForKind, whatever the fourth segment is.
C1_UserEventRejected ==
    (Extracted /\ Len(Segments) = 4 /\ Segments[1] = S_u)
        => /\ this.threw
           /\ this.message =
                IF Segments[2] = <<>> THEN EmptyIdentifier
                ELSE IF Segments[3] \notin EventTags THEN InvalidEntityDescriptor
                ELSE EventNotAllowedForKind

C1_Witness ==
    /\ Extracted
    /\ Segments = <<S_u, <<"a">>, S_event, <<>>>>
    /\ this.threw
    /\ this.message = EventNotAllowedForKind

\* C2: in a returned object eventId is set exactly when the path had 4
\* segments, kind is RoomAlias or RoomId, the third segment is "e" or "event"
\* and the fourth is non-empty; it then equals the fourth segment; a path of
\* 2 segments leaves it null.
C2_EventId ==
    Returned
        => /\ (this.eventId # Null) <=>
                (/\ Len(Segments) = 4
                 /\ this.kind \in {RoomAlias, RoomId}
                 /\ Segments[3] \in EventTags
                 /\ Segments[4] # <<>>)
           /\ (this.eventId # Null => this.eventId = Segments[4])
           /\ (Len(Segments) = 2 => this.eventId = Null)

C2_Witness ==
    /\ Returned
    /\ Segments = <<S_roomid, <<"a">>, S_event, S_e>>
    /\ this.kind = RoomId
    /\ this.eventId = S_e

\* C3: a path whose number of segments is neither 2 nor 4 fails with
\* InvalidSegmentCount and with no other reason, whatever the segments are.
C3_SegmentCount ==
    (Extracted /\ Len(Segments) \notin {2, 4})
        => (this.threw /\ this.message = InvalidSegmentCount)

C3_Witness ==
    /\ Extracted
    /\ Segments = <<<<"a">>, <<>>, S_e>>
    /\ this.threw
    /\ this.message = InvalidSegmentCount

\* C6, as stated: in a returned object kind follows the first segment and id
\* is the second segment, never empty; any other first segment fails with
\* InvalidEntityDescriptor; a recognised first segment with an empty second
\* segment fails with EmptyIdentifier.
C6_AnySegmentCount ==
    Extracted
        => /\ ~this.threw =>
                /\ Segments[1] = S_u => this.kind = UserId
                /\ Segments[1] = S_r => this.kind = RoomAlias
                /\ Segments[1] = S_roomid => this.kind = RoomId
                /\ this.id = Segments[2]
                /\ this.id # <<>>
           /\ Segments[1] \notin KindTags =>
                (this.threw /\ this.message = InvalidEntityDescriptor)
           /\ (/\ Segments[1] \in KindTags
               /\ Len(Segments) >= 2
               /\ Segments[2] = <<>>) =>
                (this.threw /\ this.message = EmptyIdentifier)

\* C6, amended: the same, the two failures being those of a path of 2 or 4
\* segments (any other count fails with InvalidSegmentCount first).
C6_KindAndId ==
    Extracted
        => /\ ~this.threw =>
                /\ Segments[1] \in KindTags
                /\ Segments[1] = S_u => this.kind = UserId
                /\ Segments[1] = S_r => this.kind = RoomAlias
                /\ Segments[1] = S_roomid => this.kind = RoomId
                /\ this.id = Segments[2]
                /\ this.id # <<>>
           /\ (Len(Segments) \in {2, 4} /\ Segments[1] \notin KindTags) =>
                (this.threw /\ this.message = InvalidEntityDescriptor)
           /\ (/\ Len(Segments) \in {2, 4}
               /\ Segments[1] \in KindTags
               /\ Segments[2] = <<>>) =>
                (this.threw /\ this.message = EmptyIdentifier)

C6_Witness ==
    /\ Returned
    /\ Segments = <<S_roomid, <<"a">>>>
    /\ this.kind = RoomId
    /\ this.id = <<"a">>

----------------------------------------------------------------------------
(* Claims about the query *)

IsViaPair(pair) == pair[1] = S_via

IsActionPair(pair) == pair[1] = S_action

IsOtherPair(pair) == ~IsViaPair(pair) /\ ~IsActionPair(pair)

IsViaTok(t) == t.key = S_via

IsActionTok(t) == t.key = S_action

IsOtherTok(t) == ~IsViaTok(t) /\ ~IsActionTok(t)

\* The second element of a tokenized pair, as the loop destructures it
Second(pair) == IF Len(pair) >= 2 THEN pair[2] ELSE Undefined

\* C4: the action of a returned object is the value of the last action pair,
\* null when there is none; as many action pairs are tokenized as the query
\* has action tokens; no action pair is in unknownParams.
C4_LastAction ==
    Returned
        => LET as == SelectSeq(queryParams, IsActionPair)
               ts == SelectSeq(uri.toks, IsActionTok)
           IN  /\ Len(as) = Len(ts)
               /\ as = <<>> => this.action = Null
               /\ as # <<>> => this.action = Second(as[Len(as)])
               /\ (ts # <<>> /\ ts[Len(ts)].val \in {<<"c">>, <<"d">>})
                    => this.action = ts[Len(ts)].val
               /\ \A i \in 1..Len(this.unknownParams) :
                    this.unknownParams[i][1] # S_action

C4_Witness ==
    /\ Returned
    /\ uri.toks = <<Tok(S_action, <<"c">>), Tok(<<"k">>, <<"v">>),
                    Tok(S_action, <<"d">>)>>
    /\ this.action = <<"d">>
    /\ this.unknownParams = <<<<<<"k">>, <<"v">>>>>>

\* C5: via is the sequence of values of the via pairs and unknownParams the
\* sequence of pairs keyed neither via nor action, both in the order of the
\* query with duplicates kept, one per such token of the query; both are
\* empty without a query.
C5_Partition ==
    Returned
        => LET vs == SelectSeq(queryParams, IsViaPair)
               os == SelectSeq(queryParams, IsOtherPair)
               vt == SelectSeq(uri.toks, IsViaTok)
               ot == SelectSeq(uri.toks, IsOtherTok)
           IN  /\ this.via = [i \in 1..Len(vs) |-> Second(vs[i])]
               /\ this.unknownParams =
                    [i \in 1..Len(os) |-> <<os[i][1], Second(os[i])>>]
               /\ Len(this.via) = Len(vt)
               /\ Len(this.unknownParams) = Len(ot)
               /\ \A i \in 1..Len(ot) : this.unknownParams[i][1] = ot[i].key
               /\ uri.toks = <<>> => (this.via = <<>> /\ this.unknownParams = <<>>)

C5_Witness ==
    /\ Returned
    /\ uri.toks = <<Tok(S_via, <<"t">>), Tok(<<"k">>, <<"v">>),
                    Tok(S_via, <<"s">>)>>
    /\ this.via = <<<<"t">>, <<"s">>>>
    /\ this.unknownParams = <<<<<<"k">>, <<"v">>>>>>

\* C8: a token k=v is split on its first "=" only: when every token of the
\* query has a "=", the classified values are the whole texts after the
\* first "=" of the tokens.
C8_FirstEqualsOnly ==
    (Returned /\ \A i \in 1..Len(uri.toks) : uri.toks[i].val # Null)
        => LET vt == SelectSeq(uri.toks, IsViaTok)
               at == SelectSeq(uri.toks, IsActionTok)
               ot == SelectSeq(uri.toks, IsOtherTok)
           IN  /\ this.via = [i \in 1..Len(vt) |-> vt[i].val]
               /\ at # <<>> => this.action = at[Len(at)].val
               /\ this.unknownParams =
                    [i \in 1..Len(ot) |-> <<ot[i].key, ot[i].val>>]

\* C9: a token without "=" is a key with the empty string as value: no via
\* element, action or unknownParams value is undefined, and the bare token
\* contributes "".
C9_BareKeyIsEmptyString ==
    Returned
        => /\ \A i \in 1..Len(this.via) : this.via[i] # Undefined
           /\ this.action # Undefined
           /\ \A i \in 1..Len(this.unknownParams) :
                this.unknownParams[i][2] # Undefined
           /\ uri.toks = <<Tok(S_via, Null)>> => this.via = <<<<>>>>
           /\ uri.toks = <<Tok(S_action, Null)>> => this.action = <<>>
           /\ uri.toks = <<Tok(<<"k">>, Null)>>
                => this.unknownParams = <<<<<<"k">>, <<>>>>>>

----------------------------------------------------------------------------
(* Claims about the whole construction *)

\* C7: for scheme://A/rest both shapes of the URL primitive give the same
\* outcome, with authority A and exactly rest as the path; for scheme:rest
\* the authority is null and the path is rest.
C7_BothShapesAgree ==
    (Done /\ uri.scheme = "matrix:")
        => /\ path = Rest(uri)
           /\ ~this.threw => this.authority = uri.authority
           /\ this = MatrixURL(URL(uri, Node))
           /\ this = MatrixURL(URL(uri, Browser))

\* C10: the query and the fragment interfere with neither the outcome nor
\* id, kind, eventId and authority: they are those of the same URI without
\* query and fragment.
C10_NonInterference ==
    Done
        => LET bare == MatrixURL(URL([uri EXCEPT !.toks = <<>>,
                                                 !.fragment = <<>>], env))
           IN  /\ this.threw = bare.threw
               /\ this.message = bare.message
               /\ this.id = bare.id
               /\ this.kind = bare.kind
               /\ this.eventId = bare.eventId
               /\ this.authority = bare.authority

C10_Witness ==
    /\ Returned
    /\ Len(uri.toks) = 3
    /\ uri.toks[1] = Tok(<<"k">>, Null)
    /\ uri.fragment # <<>>
    /\ this.eventId = <<"a">>
    /\ this.unknownParams # <<>>

====
